---- MODULE Spec2Model ----
(***************************************************************************)
(* Model of the Bloombox browser SDK: the request senders (enroll,          *)
(* zipcheck, shop info), the telemetry Context and the global context       *)
(* cache, and the generic event serializer.                                 *)
(*                                                                          *)
(* JavaScript values are tuples of strings: <<"undefined">>, <<"null">>,    *)
(* <<"boolean", "true">>, <<"string", s>>, <<"number", digits>>, and for    *)
(* objects a tuple whose first element names the class.                     *)
(***************************************************************************)
EXTENDS Integers, Sequences, FiniteSets, TLC

VARIABLES
  config,              \* bloombox.config: [partner, location]
  sends,               \* call slot -> state of one sender call and its closure
  DEVICE_FINGERPRINT,  \* bloombox.telemetry.DEVICE_FINGERPRINT
  SESSION_ID,          \* bloombox.telemetry.SESSION_ID
  GLOBAL_CONTEXT,      \* bloombox.telemetry.GLOBAL_CONTEXT: null or a reference
  localStorage,        \* window.localStorage item 'bb:v1:t.df'
  sessionStorage,      \* window.sessionStorage item 'bb:v1:t.sid'
  uuids,               \* number of identifiers generateUUID has handed out
  heap,                \* the Context objects allocated so far, by reference
  env,                 \* the user agent the library runs in
  tel,                 \* the last telemetry call and what it returned
  fp,                  \* what the resolveFingerprint calls so far returned
  ctx,                 \* a Context constructor call: arguments and outcome
  ser,                 \* the last serializeGeneric call and its outcome
  ids,                 \* two bloombox.identity.ID constructor calls
  pages                \* two pages of one origin inside the two resolvers

vars == <<config, sends, DEVICE_FINGERPRINT, SESSION_ID, GLOBAL_CONTEXT,
          localStorage, sessionStorage, uuids, heap, env, tel, fp, ctx, ser,
          ids, pages>>

senderVars == <<sends>>
telemetryVars == <<DEVICE_FINGERPRINT, SESSION_ID, GLOBAL_CONTEXT,
                   localStorage, sessionStorage, uuids, heap, env, tel, fp>>

-----------------------------------------------------------------------------
(* Bounds of the model *)

MaxDeliveries == 2
MaxUUIDs == 3
MaxContexts == 2

-----------------------------------------------------------------------------
(* JavaScript values *)

Undefined == <<"undefined">>
Null == <<"null">>
True == <<"boolean", "true">>
False == <<"boolean", "false">>
Str(s) == <<"string", s>>
Num(n) == <<"number", n>>
Bool(b) == IF b THEN True ELSE False

typeof(v) ==
  CASE v[1] = "undefined" -> "undefined"
    [] v[1] = "boolean" -> "boolean"
    [] v[1] = "string" -> "string"
    [] v[1] = "number" -> "number"
    [] OTHER -> "object"

\* ToBoolean: undefined, null, false, '', 0 and NaN are falsy
Truthy(v) ==
  CASE v[1] = "undefined" -> FALSE
    [] v[1] = "null" -> FALSE
    [] v[1] = "boolean" -> v[2] = "true"
    [] v[1] = "string" -> v[2] # ""
    [] v[1] = "number" -> v[2] \notin {"0", "NaN"}
    [] OTHER -> TRUE

\* x != null (loose): false for null and undefined only
NotNullish(v) == v[1] \notin {"undefined", "null"}

\* a || b
Or(a, b) == IF Truthy(a) THEN a ELSE b

RECURSIVE join(_, _)
\* Array.prototype.join over an array of strings
join(parts, sep) ==
  IF Len(parts) = 0 THEN ""
  ELSE IF Len(parts) = 1 THEN parts[1]
  ELSE parts[1] \o sep \o join(Tail(parts), sep)

-----------------------------------------------------------------------------
(* A string whose characters the code inspects (a zipcode, a password) is  *)
(* given as an array of one-character strings; str() is the JavaScript      *)
(* string value it stands for.                                              *)

str(cs) == Str(join(cs, ""))

DigitChars == <<
  "0", "1", "2", "3", "4", "5", "6", "7", "8", "9" >>

UpperChars == <<
  "A", "B", "C", "D", "E", "F", "G", "H", "I", "J", "K", "L", "M",
  "N", "O", "P", "Q", "R", "S", "T", "U", "V", "W", "X", "Y", "Z" >>

LowerChars == <<
  "a", "b", "c", "d", "e", "f", "g", "h", "i", "j", "k", "l", "m",
  "n", "o", "p", "q", "r", "s", "t", "u", "v", "w", "x", "y", "z" >>

indexOf(seq, c) == CHOOSE i \in 1..Len(seq) : seq[i] = c

isDigit(c) == \E i \in 1..Len(DigitChars) : DigitChars[i] = c

\* String.prototype.charCodeAt for ASCII letters and digits
charCode(c) ==
  IF isDigit(c) THEN 47 + indexOf(DigitChars, c)
  ELSE IF \E i \in 1..Len(UpperChars) : UpperChars[i] = c
       THEN 64 + indexOf(UpperChars, c)
       ELSE 96 + indexOf(LowerChars, c)

\* the base64 alphabet of btoa
B64Alphabet == UpperChars \o LowerChars \o DigitChars \o <<"+", "/">>

RECURSIVE b64(_)
\* base64 of a sequence of byte values: 3 bytes give 4 sextets, padded with =
b64(bytes) ==
  IF Len(bytes) = 0 THEN <<>>
  ELSE
    LET b1 == bytes[1]
        b2 == IF Len(bytes) >= 2 THEN bytes[2] ELSE 0
        b3 == IF Len(bytes) >= 3 THEN bytes[3] ELSE 0
        n == b1 * 65536 + b2 * 256 + b3
        c1 == B64Alphabet[(n \div 262144) + 1]
        c2 == B64Alphabet[((n \div 4096) % 64) + 1]
        c3 == IF Len(bytes) >= 2 THEN B64Alphabet[((n \div 64) % 64) + 1] ELSE "="
        c4 == IF Len(bytes) >= 3 THEN B64Alphabet[(n % 64) + 1] ELSE "="
    IN <<c1, c2, c3, c4>> \o
         (IF Len(bytes) > 3 THEN b64(SubSeq(bytes, 4, Len(bytes))) ELSE <<>>)

\* ToString of an argument given as a character array, undefined or null
toChars(arg) ==
  CASE arg = Undefined -> <<"u", "n", "d", "e", "f", "i", "n", "e", "d">>
    [] arg = Null -> <<"n", "u", "l", "l">>
    [] OTHER -> arg

\* window.btoa: base64 of the string form of its argument
btoa(arg) ==
  LET cs == toChars(arg)
  IN Str(join(b64([i \in 1..Len(cs) |-> charCode(cs[i])]), ""))

-----------------------------------------------------------------------------
(* Request senders: bloombox.shop.zipcheck, bloombox.shop.info and          *)
(* bloombox.shop.enroll.Enrollment                                          *)

\* two sender calls may be in flight at once
SendIds == {1, 2}

\* values of bloombox.config.partner and bloombox.config.location
PartnerCodes == {Undefined, Str("a"), Str("acme")}
LocationCodes == {Undefined, Str("sf")}

\* a response handed over by the transport: a primitive, or an object with
\* the properties the senders look up (an absent property reads undefined)
Response(v, supported, shopStatus, error, id, foreignId) ==
  [v |-> v, supported |-> supported, shopStatus |-> shopStatus,
   error |-> error, id |-> id, foreignId |-> foreignId]

Primitive(v) == Response(v, Undefined, Undefined, Undefined, Undefined, Undefined)

Object == <<"Object">>

Primitives == {Primitive(v) : v \in {Undefined, Null, False, Str("OK")}}

ZipcheckResponses ==
  Primitives \cup
  {Response(Object, x, Undefined, Undefined, Undefined, Undefined) :
     x \in {Undefined, True, False, Str("true")}}

\* bloombox.shop.ShopStatus
ShopStatus ==
  [OPEN |-> Str("OPEN"), CLOSED |-> Str("CLOSED"),
   PICKUP_ONLY |-> Str("PICKUP_ONLY"), DELIVERY_ONLY |-> Str("DELIVERY_ONLY")]

InfoResponses ==
  Primitives \cup
  {Response(Object, Undefined, x, Undefined, Undefined, Undefined) :
     x \in {Undefined, Str(""), ShopStatus.OPEN, ShopStatus.CLOSED,
            ShopStatus.PICKUP_ONLY, ShopStatus.DELIVERY_ONLY, Str("HOLIDAY")}}

EnrollResponses ==
  Primitives \cup
  {Response(Object, Undefined, Undefined, e, i, f) :
     e \in {Undefined, Str("INVALID_PAYLOAD")},
     i \in {Undefined, Str(""), Str("id-1")},
     f \in {Undefined, Str("f-1")}}

\* status codes handed to the failure continuation
Statuses == {Num("0"), Num("500")}

People == {"alice", "bob"}
PasswordArgs == {Undefined, Null, <<"p", "w">>}
DoctorWebsites == {Null, Str("dr")}
ZipcodeArgs ==
  {Undefined, <<"9", "4", "1", "0", "3">>, <<"9", "4", "1", "0">>,
   <<"9", "a", "b", "c", "d">>, <<"a", "b", "c", "d", "e">>}

NoEnrollment ==
  [person |-> "", doctorWebsite |-> Undefined, password |-> Undefined,
   dryRun |-> FALSE]

NoRequest ==
  [routine |-> "", method |-> "", endpoint |-> "", person |-> "",
   partnerCode |-> Undefined, locationCode |-> Undefined,
   password |-> Undefined, dryRun |-> Undefined]

\* one call slot before anything was called on it
IdleSend ==
  [kind |-> "none", st |-> "idle", enr |-> NoEnrollment, exc |-> "",
   passwordArg |-> Undefined, logged |-> "", rpcs |-> <<>>, done |-> FALSE,
   deliveries |-> 0,
   ncalls |-> 0, args |-> <<>>]

\* new bloombox.shop.enroll.Enrollment(source, channel, person, rec, license,
\* password); source, channel and license are carried by the person here
Enrollment(person, doctorWebsite, password) ==
  [person |-> person,
   doctorWebsite |-> doctorWebsite,
   password |-> IF password # Null THEN btoa(password) ELSE Null,
   dryRun |-> FALSE]

NewEnrollment(s, person, doctorWebsite, password) ==
  /\ sends[s].st = "idle"
  /\ sends' = [sends EXCEPT ![s] =
       [@ EXCEPT !.kind = "enroll", !.st = "built",
                 !.passwordArg = password,
                 !.enr = Enrollment(person, doctorWebsite, password)]]
  /\ UNCHANGED <<config, telemetryVars, ctx, ser, ids, pages>>

enableDryRun(s) ==
  /\ sends[s].kind = "enroll"
  /\ sends[s].st = "built"
  /\ sends' = [sends EXCEPT ![s].enr.dryRun = TRUE]
  /\ UNCHANGED <<config, telemetryVars, ctx, ser, ids, pages>>

\* a mutation of Enrollment.prototype.send: the partner and location codes
\* are not tested before the request is built
sendNoConfigCheck(s) ==
  LET enr == sends[s].enr
      partner == config.partner
      location == config.location
      rawObject ==
        [routine |-> "ENROLL_USER", method |-> "POST", endpoint |-> "members",
         person |-> enr.person,
         partnerCode |-> partner, locationCode |-> location,
         password |-> IF enr.password # Null THEN enr.password ELSE Undefined,
         dryRun |-> IF enr.dryRun = TRUE THEN True ELSE Undefined]
  IN
  /\ sends[s].kind = "enroll"
  /\ sends[s].st = "built"
  /\ sends' = [sends EXCEPT ![s] =
       IF enr.doctorWebsite # Null
       THEN [@ EXCEPT !.st = "threw", !.exc = "TypeError"]
       ELSE [@ EXCEPT !.st = "sent", !.rpcs = Append(@, rawObject)]]
  /\ UNCHANGED <<config, telemetryVars, ctx, ser, ids, pages>>

\* Enrollment.prototype.send up to and including rpc.send
send(s) ==
  LET enr == sends[s].enr
      partner == config.partner
      location == config.location
      rawObject ==
        [routine |-> "ENROLL_USER", method |-> "POST", endpoint |-> "members",
         person |-> enr.person,
         partnerCode |-> partner, locationCode |-> location,
         password |-> IF enr.password # Null THEN enr.password ELSE Undefined,
         dryRun |-> IF enr.dryRun = TRUE THEN True ELSE Undefined]
  IN
  /\ sends[s].kind = "enroll"
  /\ sends[s].st = "built"
  /\ sends' = [sends EXCEPT ![s] =
       IF ~Truthy(partner) \/ ~Truthy(location)
       THEN [@ EXCEPT !.st = "returned",
                      !.logged = "Partner or location code is not defined."]
       ELSE IF enr.doctorWebsite # Null
            \* rawObject['doctorRec']['person'] is undefined
            THEN [@ EXCEPT !.st = "threw", !.exc = "TypeError"]
            ELSE [@ EXCEPT !.st = "sent", !.rpcs = Append(@, rawObject)]]
  /\ UNCHANGED <<config, telemetryVars, ctx, ser, ids, pages>>

\* isNaN(parseInt(s, 10)) for a string of letters and digits
parseIntIsNaN(cs) == Len(cs) = 0 \/ ~isDigit(cs[1])

\* the partner/location test shared by zipcheck and info
codesMissing(partnerCode, locationCode) ==
  \/ ~Truthy(partnerCode)
  \/ ~(typeof(partnerCode) = "string" /\ Len(partnerCode[2]) > 1)
  \/ ~(typeof(locationCode) = "string" /\ Len(locationCode[2]) > 1)

\* bloombox.shop.zipcheck up to and including rpc.send
zipcheck(s, zipcode) ==
  LET partnerCode == config.partner
      locationCode == config.location
      invalid ==
        \/ zipcode = Undefined
        \/ Len(zipcode) = 0
        \/ ~(Len(zipcode) = 5)
        \/ parseIntIsNaN(zipcode)
  IN
  /\ sends[s].st = "idle"
  /\ sends' = [sends EXCEPT ![s] =
       IF invalid \/ codesMissing(partnerCode, locationCode)
       THEN [@ EXCEPT !.kind = "zipcheck", !.st = "threw",
                      !.exc = "ZipcheckException"]
       ELSE [@ EXCEPT !.kind = "zipcheck", !.st = "sent",
                      !.rpcs = Append(@,
                        [NoRequest EXCEPT
                           !.routine = "CHECK_ZIP", !.method = "GET",
                           !.endpoint = join(<<"partners", partnerCode[2],
                                               "locations", locationCode[2],
                                               "zipcheck", str(zipcode)[2]>>,
                                             "/")])]]
  /\ UNCHANGED <<config, telemetryVars, ctx, ser, ids, pages>>

\* bloombox.shop.info up to and including rpc.send
info(s) ==
  LET partnerCode == config.partner
      locationCode == config.location
  IN
  /\ sends[s].st = "idle"
  /\ sends' = [sends EXCEPT ![s] =
       IF codesMissing(partnerCode, locationCode)
       THEN [@ EXCEPT !.kind = "info", !.st = "threw",
                      !.exc = "ShopInfoException"]
       ELSE [@ EXCEPT !.kind = "info", !.st = "sent",
                      !.rpcs = Append(@,
                        [NoRequest EXCEPT
                           !.routine = "SHOP_INFO", !.method = "GET",
                           !.endpoint = join(<<"partners", partnerCode[2],
                                               "locations", locationCode[2],
                                               "shop", "info">>, "/")])]]
  /\ UNCHANGED <<config, telemetryVars, ctx, ser, ids, pages>>

\* callback(args) as invoked by a continuation: the slot counts the
\* invocations and keeps the arguments of the latest
invoke(sl, args) == [sl EXCEPT !.ncalls = @ + 1, !.args = args]

\* new bloombox.shop.Customer(personObj, response['foreignId'])
Customer(person, foreignId) == <<"Customer", person, foreignId[2]>>

\* success continuation of zipcheck
zipcheckResponse(sl, response) ==
  IF sl.done THEN sl
  ELSE IF NotNullish(response.v)
       THEN LET d == [sl EXCEPT !.done = TRUE]
            IN IF typeof(response.v) = "object"
               THEN LET supported == (response.supported = True)
                    IN invoke(d, <<Bool(supported)>>)
               ELSE invoke(d, <<Null>>)
       ELSE sl

\* failure continuation of zipcheck
zipcheckFailure(sl, status) == invoke(sl, <<Null>>)

\* info's success continuation with the PICKUP_ONLY case of the switch lost
infoResponseNoPickupCase(sl, response) ==
  IF sl.done THEN sl
  ELSE IF NotNullish(response.v)
       THEN LET d == [sl EXCEPT !.done = TRUE]
                status == Or(response.shopStatus, ShopStatus.OPEN)
                pickup ==
                  CASE status = ShopStatus.CLOSED -> FALSE
                    [] status = ShopStatus.DELIVERY_ONLY -> FALSE
                    [] OTHER -> TRUE
                delivery ==
                  CASE status = ShopStatus.CLOSED -> FALSE
                    [] status = ShopStatus.DELIVERY_ONLY -> TRUE
                    [] OTHER -> TRUE
            IN IF typeof(response.v) = "object"
               THEN invoke(d, <<Bool(pickup), Bool(delivery), Null>>)
               ELSE invoke(d, <<Null, Null, Null>>)
       ELSE sl

\* success continuation of info
infoResponse(sl, response) ==
  IF sl.done THEN sl
  ELSE IF NotNullish(response.v)
       THEN LET d == [sl EXCEPT !.done = TRUE]
                status == Or(response.shopStatus, ShopStatus.OPEN)
                pickup ==
                  CASE status = ShopStatus.CLOSED -> FALSE
                    [] status = ShopStatus.DELIVERY_ONLY -> FALSE
                    [] status = ShopStatus.PICKUP_ONLY -> TRUE
                    [] OTHER -> TRUE
                delivery ==
                  CASE status = ShopStatus.CLOSED -> FALSE
                    [] status = ShopStatus.DELIVERY_ONLY -> TRUE
                    [] status = ShopStatus.PICKUP_ONLY -> FALSE
                    [] OTHER -> TRUE
            IN IF typeof(response.v) = "object"
               THEN invoke(d, <<Bool(pickup), Bool(delivery), Null>>)
               ELSE invoke(d, <<Null, Null, Null>>)
       ELSE sl

\* failure continuation of info
infoFailure(sl, status) == invoke(sl, <<Null, Null, Or(status, Null)>>)

\* enroll's success continuation testing id and foreignId before error
enrollResponseIdFirst(sl, response) ==
  IF sl.done THEN sl
  ELSE IF NotNullish(response.v)
       THEN LET d == [sl EXCEPT !.done = TRUE]
                personObj == sl.enr.person
            IN IF Truthy(response.id) /\ Truthy(response.foreignId)
               THEN invoke(d, <<True, Null,
                                Customer(personObj, response.foreignId)>>)
               ELSE IF Truthy(response.error)
                    THEN invoke(d, <<False, response.error, Null>>)
                    ELSE invoke(d, <<False, Null, Null>>)
       ELSE invoke(sl, <<False, Null, Null>>)

\* success continuation of Enrollment.prototype.send
enrollResponse(sl, response) ==
  IF sl.done THEN sl
  ELSE IF NotNullish(response.v)
       THEN LET d == [sl EXCEPT !.done = TRUE]
                personObj == sl.enr.person
            IN IF Truthy(response.error)
               THEN LET inflated == [error |-> response.error]
                    IN invoke(d, <<False, inflated.error, Null>>)
               ELSE IF Truthy(response.id) /\ Truthy(response.foreignId)
                    THEN invoke(d, <<True, Null,
                                     Customer(personObj, response.foreignId)>>)
                    ELSE invoke(d, <<False, Null, Null>>)
       ELSE invoke(sl, <<False, Null, Null>>)

\* failure continuation of Enrollment.prototype.send
enrollFailure(sl, status) == invoke(sl, <<False, Null, Null>>)

Responses(kind) ==
  CASE kind = "zipcheck" -> ZipcheckResponses
    [] kind = "info" -> InfoResponses
    [] kind = "enroll" -> EnrollResponses
    [] OTHER -> {}

\* continuation invocations the transport has made so far, over all calls
delivered == sends[1].deliveries + sends[2].deliveries

\* a mutation of rpcResponse: one done flag for all the calls
rpcResponseSharedDone(s, response) ==
  LET sl == [sends[s] EXCEPT !.done = \E t \in SendIds : sends[t].done]
      after ==
        CASE sl.kind = "zipcheck" -> zipcheckResponse(sl, response)
          [] sl.kind = "info" -> infoResponse(sl, response)
          [] OTHER -> enrollResponse(sl, response)
  IN
  /\ sl.st = "sent"
  /\ delivered < MaxDeliveries
  /\ response \in Responses(sl.kind)
  /\ sends' = [sends EXCEPT ![s] = [after EXCEPT !.deliveries = @ + 1]]
  /\ UNCHANGED <<config, telemetryVars, ctx, ser, ids, pages>>

\* the transport invokes the success continuation of call s
rpcResponse(s, response) ==
  LET sl == sends[s]
      after ==
        CASE sl.kind = "zipcheck" -> zipcheckResponse(sl, response)
          [] sl.kind = "info" -> infoResponse(sl, response)
          [] OTHER -> enrollResponse(sl, response)
  IN
  /\ sl.st = "sent"
  /\ delivered < MaxDeliveries
  /\ response \in Responses(sl.kind)
  /\ sends' = [sends EXCEPT ![s] = [after EXCEPT !.deliveries = @ + 1]]
  /\ UNCHANGED <<config, telemetryVars, ctx, ser, ids, pages>>

\* the transport invokes the failure continuation of call s
rpcFailure(s, status) ==
  LET sl == sends[s]
      after ==
        CASE sl.kind = "zipcheck" -> zipcheckFailure(sl, status)
          [] sl.kind = "info" -> infoFailure(sl, status)
          [] OTHER -> enrollFailure(sl, status)
  IN
  /\ sl.st = "sent"
  /\ delivered < MaxDeliveries
  /\ sends' = [sends EXCEPT ![s] = [after EXCEPT !.deliveries = @ + 1]]
  /\ UNCHANGED <<config, telemetryVars, ctx, ser, ids, pages>>

-----------------------------------------------------------------------------
(* Telemetry context: bloombox.telemetry.Context *)

\* new bloombox.telemetry.Collection(name, opt_skipb64encode), with the name
\* given as a character array
Collection(name, opt_skipb64encode) ==
  <<"Collection", IF Truthy(opt_skipb64encode) THEN str(name)[2]
                  ELSE btoa(name)[2]>>

\* proto key objects, flattened: a location key carries its partner's code,
\* a device key carries its location key (or null)
PartnerKey(code) == <<"PartnerKey", code>>
PartnerLocationKey(code, partnerKey) ==
  <<"PartnerLocationKey", code, partnerKey[2]>>
PartnerDeviceKey(uuid, locationKey) == <<"PartnerDeviceKey", uuid>> \o locationKey
UserKey(uid) == <<"UserKey", uid>>
OrderKey(id) == <<"OrderKey", id>>

\* the constructor: exc names the exception thrown, if any, and this holds
\* the fields as assigned (partner is never assigned and reads undefined)
Context(opt_collection, opt_partner, opt_location, opt_fingerprint, opt_session, opt_user, opt_device, opt_order, opt_browser) ==
  LET partnerKey ==
        IF Truthy(opt_partner) THEN PartnerKey(opt_partner[2]) ELSE Null
      branch ==
        IF Truthy(opt_partner) /\ Truthy(opt_location) THEN "key"
        ELSE IF Truthy(opt_partner) /\ Truthy(opt_location) THEN "throw"
        ELSE "null"
      locationKey ==
        IF branch = "key" THEN PartnerLocationKey(opt_location[2], partnerKey)
        ELSE Null
      deviceKey ==
        IF Truthy(opt_device) /\ typeof(opt_device) = "string"
        THEN PartnerDeviceKey(opt_device[2], locationKey)
        ELSE Null
      user == IF Truthy(opt_user) THEN UserKey(opt_user[2]) ELSE Null
      order == IF Truthy(opt_order) THEN OrderKey(opt_order[2]) ELSE Null
  IN [exc |-> IF branch = "throw" THEN "ContextException" ELSE "",
      this |-> [collection |-> Or(opt_collection, Null),
                fingerprint |-> Or(opt_fingerprint, Null),
                session |-> Or(opt_session, Null),
                partner |-> Undefined,
                location |-> locationKey,
                device |-> deviceKey,
                user |-> user,
                order |-> order,
                browser |-> Or(opt_browser, Null)]]

\* arguments a caller may pass to the constructor
ContextArgs ==
  [collection : {Null, Collection(<<"s", "a", "l", "e", "s">>, Undefined)},
   partner : {Undefined, Null, Str("acme")},
   location : {Undefined, Str("sf")},
   fingerprint : {Undefined, Str("fp-1")},
   session : {Undefined, Str("sid-1")},
   user : {Undefined, Str("user-1")},
   device : {Undefined, Str("dev-1")},
   order : {Undefined, Str("order-1")},
   browser : {Undefined, <<"BrowserDeviceContext", "CHROME", "DESKTOP", "60",
                           "MACOS", "10.12", "https://shop.example",
                           "v1", "full">>}]

NoThis ==
  [collection |-> Undefined, fingerprint |-> Undefined, session |-> Undefined,
   partner |-> Undefined, location |-> Undefined, device |-> Undefined,
   user |-> Undefined, order |-> Undefined, browser |-> Undefined]

\* new bloombox.telemetry.Context(...) on the arguments drawn
NewContext ==
  LET a == ctx.args
      made == Context(a.collection, a.partner, a.location, a.fingerprint,
                      a.session, a.user, a.device, a.order, a.browser)
  IN
  /\ ctx.st = "args"
  /\ ctx' = [ctx EXCEPT !.st = IF made.exc = "" THEN "built" ELSE "threw",
                        !.exc = made.exc,
                        !.this = IF made.exc = "" THEN made.this ELSE NoThis]
  /\ UNCHANGED <<config, sends, telemetryVars, ser, ids, pages>>

\* a plain object or a proto message is the set of its <<key, value>> pairs,
\* nested keys written with a dot; a key that was not set has no pair
NoRendering == [done |-> FALSE, exc |-> "", ret |-> {}, scope |-> Undefined]

\* bloombox.telemetry.Context.resolveVersion on a version name
resolveVersion(name) == IF name # "" THEN name ELSE ""

\* bloombox.telemetry.Context.serializeBrowserContext: browserType,
\* deviceType, version, os.type, os.version, app.type, app.origin,
\* library.variant, library.version
serializeBrowserContext(protob) ==
  <<"Object", protob[2], protob[3], resolveVersion(protob[4]), protob[5],
    resolveVersion(protob[6]), "", protob[7], protob[9],
    resolveVersion(protob[8])>>

\* a mutation of serialize: the order is added to the scope whether or not a
\* partner scope was emitted
serializeOrderInScope(this) ==
  LET partnerScope ==
        IF Truthy(this.location)
        THEN IF Truthy(this.device)
             THEN Str(join(<<this.location[3], this.location[2],
                             this.device[2]>>, "/"))
             ELSE IF this.device = Null THEN <<"TypeError">>
             ELSE Str(join(<<this.location[3], this.device[2]>>, "/"))
        ELSE IF Truthy(this.partner)
             THEN IF this.location = Null THEN <<"TypeError">>
                  ELSE Str(this.location[3])
             ELSE Null
      scope ==
        (IF partnerScope[1] = "string" /\ Truthy(partnerScope)
         THEN {<<"scope.partner", partnerScope>>} ELSE {})
        \cup (IF Truthy(this.order)
              THEN {<<"scope.order", Str(this.order[2])>>} ELSE {})
      baseContext ==
        (IF Truthy(this.collection)
         THEN {<<"collection.name", Str(this.collection[2])>>} ELSE {})
        \cup (IF Truthy(this.fingerprint)
              THEN {<<"fingerprint", this.fingerprint>>} ELSE {})
        \cup (IF Truthy(this.session)
              THEN {<<"group", this.session>>} ELSE {})
        \cup (IF Truthy(this.user)
              THEN {<<"user.uid", Str(this.user[2])>>} ELSE {})
        \cup (IF Truthy(this.order)
              THEN {<<"order.id", Str(this.order[2])>>} ELSE {})
        \cup scope
        \cup (IF Truthy(this.browser)
              THEN {<<"browser", serializeBrowserContext(this.browser)>>}
              ELSE {})
  IN IF partnerScope = <<"TypeError">>
     THEN [done |-> TRUE, exc |-> "TypeError", ret |-> {},
           scope |-> Undefined]
     ELSE [done |-> TRUE, exc |-> "", ret |-> baseContext,
           scope |-> partnerScope]

\* Context.prototype.serialize on the fields of this; partnerScope is the
\* string joined, null, or the TypeError a property read on null throws
serialize(this) ==
  LET partnerScope ==
        IF Truthy(this.location)
        THEN IF Truthy(this.device)
             THEN Str(join(<<this.location[3], this.location[2],
                             this.device[2]>>, "/"))
             ELSE IF this.device = Null THEN <<"TypeError">>
             ELSE Str(join(<<this.location[3], this.device[2]>>, "/"))
        ELSE IF Truthy(this.partner)
             THEN IF this.location = Null THEN <<"TypeError">>
                  ELSE Str(this.location[3])
             ELSE Null
      scope ==
        IF partnerScope[1] = "string" /\ Truthy(partnerScope)
        THEN {<<"scope.partner", partnerScope>>}
        ELSE IF Truthy(this.order)
        THEN {<<"scope.order", Str(this.order[2])>>}
        ELSE {}
      baseContext ==
        (IF Truthy(this.collection)
         THEN {<<"collection.name", Str(this.collection[2])>>} ELSE {})
        \cup (IF Truthy(this.fingerprint)
              THEN {<<"fingerprint", this.fingerprint>>} ELSE {})
        \cup (IF Truthy(this.session)
              THEN {<<"group", this.session>>} ELSE {})
        \cup (IF Truthy(this.user)
              THEN {<<"user.uid", Str(this.user[2])>>} ELSE {})
        \cup (IF Truthy(this.order)
              THEN {<<"order.id", Str(this.order[2])>>} ELSE {})
        \cup scope
        \cup (IF Truthy(this.browser)
              THEN {<<"browser", serializeBrowserContext(this.browser)>>}
              ELSE {})
  IN IF partnerScope = <<"TypeError">>
     THEN [done |-> TRUE, exc |-> "TypeError", ret |-> {},
           scope |-> Undefined]
     ELSE [done |-> TRUE, exc |-> "", ret |-> baseContext,
           scope |-> partnerScope]

\* Context.prototype.export on the fields of this: ret is the message
\* returned; scope is the partner string of the local Scope message, which
\* is filled in and not set on the message returned
export(this) ==
  LET scope ==
        IF Truthy(this.location)
        THEN IF Truthy(this.device)
             THEN Str("partner/" \o this.location[3] \o
                      "location/" \o this.location[2] \o
                      "device/" \o this.device[2])
             ELSE Str("partner/" \o this.location[3] \o
                      "location/" \o this.location[2])
        ELSE Undefined
      context ==
        (IF Truthy(this.fingerprint)
         THEN {<<"fingerprint", this.fingerprint>>} ELSE {})
        \cup (IF Truthy(this.session)
              THEN {<<"group", this.session>>} ELSE {})
        \cup (IF Truthy(this.collection)
              THEN {<<"collection", this.collection>>} ELSE {})
        \cup (IF Truthy(this.user)
              THEN {<<"user", this.user>>} ELSE {})
        \cup (IF Truthy(this.browser)
              THEN {<<"browser", this.browser>>} ELSE {})
  IN [done |-> TRUE, exc |-> "", ret |-> context, scope |-> scope]

\* a call of serialize() on the Context constructed
Serialize ==
  /\ ctx.st = "built"
  /\ ~ctx.serialized.done
  /\ ctx' = [ctx EXCEPT !.serialized = serialize(ctx.this)]
  /\ UNCHANGED <<config, sends, telemetryVars, ser, ids, pages>>

\* a call of export() on the Context constructed
Export ==
  /\ ctx.st = "built"
  /\ ~ctx.exported.done
  /\ ctx' = [ctx EXCEPT !.exported = export(ctx.this)]
  /\ UNCHANGED <<config, sends, telemetryVars, ser, ids, pages>>

-----------------------------------------------------------------------------
(* Global context cache: resolveFingerprint, resolveSessionID,              *)
(* buildBrowserContext, globalContext                                       *)

\* the user agents the library may find itself in (goog.userAgent flags)
UserAgents ==
  {[CHROME |-> TRUE, SAFARI |-> FALSE, FIREFOX |-> FALSE, OPERA |-> FALSE,
    EDGE_OR_IE |-> FALSE, IOS |-> FALSE, WINDOWS |-> FALSE, MOBILE |-> FALSE,
    ANDROID |-> FALSE, MAC |-> TRUE, LINUX |-> FALSE,
    VERSION |-> "60", platformVersion |-> "10.12",
    origin |-> "https://shop.example"],
   [CHROME |-> FALSE, SAFARI |-> TRUE, FIREFOX |-> FALSE, OPERA |-> FALSE,
    EDGE_OR_IE |-> FALSE, IOS |-> TRUE, WINDOWS |-> FALSE, MOBILE |-> TRUE,
    ANDROID |-> FALSE, MAC |-> FALSE, LINUX |-> FALSE,
    VERSION |-> "10", platformVersion |-> "10.3",
    origin |-> "https://m.shop.example"]}

\* bloombox.util.generateUUID: the n-th call hands out a string not handed
\* out before
generateUUID(n) == Str("uuid-" \o ToString(n + 1))

\* a mutation of resolveFingerprint: the new identifier is not written to
\* the storage item
resolveFingerprintNoPersist(memory, item, n) ==
  IF memory = Null
  THEN LET existingFingerprint == item
       IN IF Truthy(existingFingerprint)
             /\ typeof(existingFingerprint) = "string"
          THEN [memory |-> existingFingerprint, item |-> item, uuids |-> n,
                ret |-> existingFingerprint]
          ELSE LET newDeviceFingerprint == generateUUID(n)
               IN [memory |-> newDeviceFingerprint,
                   item |-> item, uuids |-> n + 1,
                   ret |-> newDeviceFingerprint]
  ELSE [memory |-> memory, item |-> item, uuids |-> n, ret |-> memory]

\* a mutation of resolveFingerprint: the storage item is not looked at
resolveFingerprintNoLoad(memory, item, n) ==
  IF memory = Null
  THEN LET newDeviceFingerprint == generateUUID(n)
       IN [memory |-> newDeviceFingerprint,
           item |-> newDeviceFingerprint, uuids |-> n + 1,
           ret |-> newDeviceFingerprint]
  ELSE [memory |-> memory, item |-> item, uuids |-> n, ret |-> memory]

\* resolveFingerprint on the in-memory value, the storage item and the
\* number of identifiers generated so far; ret is the value returned
resolveFingerprint(memory, item, n) ==
  IF memory = Null
  THEN LET existingFingerprint == item
       IN IF Truthy(existingFingerprint)
             /\ typeof(existingFingerprint) = "string"
          THEN [memory |-> existingFingerprint, item |-> item, uuids |-> n,
                ret |-> existingFingerprint]
          ELSE LET newDeviceFingerprint == generateUUID(n)
               IN [memory |-> newDeviceFingerprint,
                   item |-> newDeviceFingerprint, uuids |-> n + 1,
                   ret |-> newDeviceFingerprint]
  ELSE [memory |-> memory, item |-> item, uuids |-> n, ret |-> memory]

\* a mutation of resolveSessionID: every call starts a new session
resolveSessionIDEveryCall(memory, item, n) ==
  LET newSessionID == generateUUID(n)
  IN [memory |-> newSessionID, item |-> newSessionID, uuids |-> n + 1,
      ret |-> newSessionID]

\* resolveSessionID, likewise, on SESSION_ID and the session storage item
resolveSessionID(memory, item, n) ==
  IF memory = Null
  THEN LET existingID == item
       IN IF Truthy(existingID) /\ typeof(existingID) = "string"
          THEN [memory |-> existingID, item |-> item, uuids |-> n,
                ret |-> existingID]
          ELSE LET newSessionID == generateUUID(n)
               IN [memory |-> newSessionID, item |-> newSessionID,
                   uuids |-> n + 1, ret |-> newSessionID]
  ELSE [memory |-> memory, item |-> item, uuids |-> n, ret |-> memory]

\* buildBrowserContext; goog.labs.userAgent.device.isDesktop is tested as a
\* property (a function object, always truthy), so the device type is DESKTOP
buildBrowserContext(ua) ==
  LET browserType ==
        IF ua.CHROME THEN "CHROME"
        ELSE IF ua.SAFARI THEN "SAFARI"
        ELSE IF ua.FIREFOX THEN "FIREFOX"
        ELSE IF ua.OPERA THEN "OPERA"
        ELSE IF ua.EDGE_OR_IE THEN "IE_OR_EDGE"
        ELSE "BROWSER_UNKNOWN"
      isDesktop == <<"Function">>
      deviceType ==
        IF Truthy(isDesktop) THEN "DESKTOP" ELSE "UNKNOWN_DEVICE_TYPE"
      osType ==
        IF ua.IOS THEN "IOS"
        ELSE IF (ua.WINDOWS \/ ua.EDGE_OR_IE) /\ ua.MOBILE THEN "WINDOWS_PHONE"
        ELSE IF ua.WINDOWS \/ ua.EDGE_OR_IE THEN "WINDOWS"
        ELSE IF ua.ANDROID THEN "ANDROID"
        ELSE IF ua.MAC THEN "MACOS"
        ELSE IF ua.LINUX THEN "LINUX"
        ELSE "OS_UNKNOWN"
  IN <<"BrowserDeviceContext", browserType, deviceType, ua.VERSION,
       osType, ua.platformVersion, ua.origin, "v1", "full">>

\* a reference to the i-th Context object allocated
Ref(i) == <<"Context", ToString(i)>>

\* the resolveFingerprint calls so far: the first value returned, the values
\* the previous and the latest call returned, how many identifiers were
\* generated, whether the storage item was cleared or the process restarted
\* since the latest call (and before it, since the previous one), and whether
\* the latest call found the storage item empty
NoFingerprintCalls ==
  [first |-> Null, prev |-> Null, last |-> Null, gens |-> 0,
   cleared |-> FALSE, restarted |-> FALSE,
   clearedBefore |-> FALSE, restartedBefore |-> FALSE,
   emptyBefore |-> FALSE, everCleared |-> FALSE]

fingerprintCalled(log, r) ==
  [first |-> IF log.first = Null THEN r.ret ELSE log.first,
   prev |-> log.last, last |-> r.ret,
   gens |-> IF r.uuids > uuids THEN log.gens + 1 ELSE log.gens,
   cleared |-> FALSE, restarted |-> FALSE,
   clearedBefore |-> log.cleared, restartedBefore |-> log.restarted,
   emptyBefore |-> localStorage = Null,
   everCleared |-> log.everCleared]

\* the latest call observed: the value it returned, the exception it threw,
\* and whether globalContext answered from the cache
NoCall == [op |-> "none", ret |-> Undefined, exc |-> "", cached |-> FALSE]

\* a call of bloombox.telemetry.resolveFingerprint()
ResolveFingerprint ==
  LET r == resolveFingerprint(DEVICE_FINGERPRINT, localStorage, uuids)
  IN
  /\ r.uuids <= MaxUUIDs
  /\ DEVICE_FINGERPRINT' = r.memory
  /\ localStorage' = r.item
  /\ uuids' = r.uuids
  /\ fp' = fingerprintCalled(fp, r)
  /\ tel' = [op |-> "resolveFingerprint", ret |-> r.ret, exc |-> "",
            cached |-> FALSE]
  /\ UNCHANGED <<config, sends, SESSION_ID, GLOBAL_CONTEXT, sessionStorage,
                 heap, env, ctx, ser, ids, pages>>

\* a call of bloombox.telemetry.resolveSessionID()
ResolveSessionID ==
  LET r == resolveSessionID(SESSION_ID, sessionStorage, uuids)
  IN
  /\ r.uuids <= MaxUUIDs
  /\ SESSION_ID' = r.memory
  /\ sessionStorage' = r.item
  /\ uuids' = r.uuids
  /\ tel' = [op |-> "resolveSessionID", ret |-> r.ret, exc |-> "",
            cached |-> FALSE]
  /\ UNCHANGED <<config, sends, DEVICE_FINGERPRINT, GLOBAL_CONTEXT,
                 localStorage, heap, env, fp, ctx, ser, ids, pages>>

\* the body of globalContext's if: gather the configuration, resolve the
\* fingerprint and the session, detect the browser, allocate the Context and
\* store it in GLOBAL_CONTEXT
buildGlobalContext ==
  LET partnerCode == Or(config.partner, Null)
      locationCode == Or(config.location, Null)
      f == resolveFingerprint(DEVICE_FINGERPRINT, localStorage, uuids)
      sid == resolveSessionID(SESSION_ID, sessionStorage, f.uuids)
      browserContext == buildBrowserContext(env)
      made == Context(Null, partnerCode, locationCode, f.ret, sid.ret,
                      Null, Null, Null, browserContext)
  IN
  /\ sid.uuids <= MaxUUIDs
  /\ Len(heap) < MaxContexts
  /\ DEVICE_FINGERPRINT' = f.memory
  /\ localStorage' = f.item
  /\ SESSION_ID' = sid.memory
  /\ sessionStorage' = sid.item
  /\ uuids' = sid.uuids
  /\ fp' = fingerprintCalled(fp, f)
  /\ heap' = IF made.exc = "" THEN Append(heap, made.this) ELSE heap
  /\ GLOBAL_CONTEXT' =
       IF made.exc = "" THEN Ref(Len(heap) + 1) ELSE GLOBAL_CONTEXT
  /\ tel' = [op |-> "globalContext",
             ret |-> IF made.exc = "" THEN Ref(Len(heap) + 1) ELSE Undefined,
             exc |-> made.exc, cached |-> FALSE]
  /\ UNCHANGED <<config, sends, env, ctx, ser, ids, pages>>

\* globalContext's return of the Context it holds
cachedGlobalContext ==
  /\ tel' = [op |-> "globalContext", ret |-> GLOBAL_CONTEXT, exc |-> "",
             cached |-> TRUE]
  /\ UNCHANGED <<config, sends, DEVICE_FINGERPRINT, SESSION_ID,
                 GLOBAL_CONTEXT, localStorage, sessionStorage, uuids,
                 heap, env, fp, ctx, ser, ids, pages>>

\* a mutation of globalContext: opt_force_fresh is not looked at
globalContextCacheOnly(opt_force_fresh) ==
  IF GLOBAL_CONTEXT = Null
  THEN buildGlobalContext
  ELSE cachedGlobalContext

\* a call of bloombox.telemetry.globalContext(opt_force_fresh)
globalContext(opt_force_fresh) ==
  LET forceFresh == Or(opt_force_fresh, False)
  IN IF GLOBAL_CONTEXT = Null \/ Truthy(forceFresh)
     THEN buildGlobalContext
     ELSE cachedGlobalContext

\* the page is loaded again: the script's globals start over at null, both
\* storage items stay
Restart ==
  /\ DEVICE_FINGERPRINT # Null \/ SESSION_ID # Null \/ GLOBAL_CONTEXT # Null
  /\ DEVICE_FINGERPRINT' = Null
  /\ SESSION_ID' = Null
  /\ GLOBAL_CONTEXT' = Null
  /\ heap' = <<>>
  /\ tel' = NoCall
  /\ fp' = [fp EXCEPT !.restarted = TRUE]
  /\ UNCHANGED <<config, sends, localStorage, sessionStorage, uuids, env,
                 ctx, ser, ids, pages>>

\* the device storage item is removed (window.localStorage.removeItem)
ClearLocalStorage ==
  /\ localStorage # Null
  /\ localStorage' = Null
  /\ fp' = [fp EXCEPT !.cleared = TRUE, !.everCleared = TRUE]
  /\ UNCHANGED <<config, sends, DEVICE_FINGERPRINT, SESSION_ID,
                 GLOBAL_CONTEXT, sessionStorage, uuids, heap, env, tel,
                 ctx, ser, ids, pages>>

\* the active configuration is replaced (bloombox.shop.setup)
setup(partner, location) ==
  /\ config # [partner |-> partner, location |-> location]
  /\ config' = [partner |-> partner, location |-> location]
  /\ tel' = [op |-> "setup", ret |-> Undefined, exc |-> "", cached |-> FALSE]
  /\ UNCHANGED <<sends, DEVICE_FINGERPRINT, SESSION_ID, GLOBAL_CONTEXT,
                 localStorage, sessionStorage, uuids, heap, env, fp, ctx, ser, ids, pages>>

-----------------------------------------------------------------------------
(* Generic event serialization: serializeGeneric *)

EventTypeProperty ==
  [EVENT |-> "genericEvent",
   EXCEPTION |-> "genericError",
   SECTION_IMPRESSION |-> "sectionImpression",
   SECTION_VIEW |-> "sectionView",
   SECTION_ACTION |-> "sectionAction",
   PRODUCT_IMPRESSION |-> "productImpression",
   PRODUCT_VIEW |-> "productView",
   PRODUCT_ACTION |-> "productAction",
   ORDER_ACTION |-> "orderAction"]

\* the type tags a caller may pass: the nine members and a foreign string
TypeTags ==
  {EventTypeProperty[k] : k \in DOMAIN EventTypeProperty} \cup {"pageView"}

\* payloads and analytics contexts, by name
Payloads == {<<"Object", "e1">>, <<"Object", "e2">>}
ProtoContexts == {Undefined, Null, <<"Object", "c1">>}
ErrFlags == {Undefined, True, False, Null, Str("yes"), Str("")}

SerializationException(message, type, value) ==
  <<"SerializationException", message, type, value[2]>>

\* a TelemetryEvent message with its generic, error and context fields ("" is
\* a field not set)
TelemetryEvent(generic, error, context) ==
  <<"TelemetryEvent", generic, error, context>>

\* the setter of a message field: null and undefined clear it
setField(v) == IF NotNullish(v) THEN v[2] ELSE ""

\* a mutation of serializeGeneric: the genericError case falls into the
\* genericEvent one and sets the generic field
serializeGenericErrorAsEvent(type, value, opt_context, opt_err) ==
  LET doThrow == IF opt_err = Undefined THEN True ELSE opt_err
      context == IF opt_context # Undefined THEN setField(opt_context) ELSE ""
  IN CASE type \in {EventTypeProperty.EVENT, EventTypeProperty.EXCEPTION} ->
            [exc |-> <<>>,
             ret |-> TelemetryEvent(setField(value), "", context)]
       [] OTHER ->
            IF Truthy(doThrow)
            THEN [exc |-> SerializationException(
                            "Unable to serialize generic TelemetryEvent.",
                            type, value),
                  ret |-> Undefined]
            ELSE [exc |-> <<>>, ret |-> Null]

\* a mutation of serializeGeneric: an omitted opt_err is taken as false
serializeGenericQuietDefault(type, value, opt_context, opt_err) ==
  LET doThrow == IF opt_err = Undefined THEN False ELSE opt_err
      context == IF opt_context # Undefined THEN setField(opt_context) ELSE ""
  IN CASE type = EventTypeProperty.EVENT ->
            [exc |-> <<>>,
             ret |-> TelemetryEvent(setField(value), "", context)]
       [] type = EventTypeProperty.EXCEPTION ->
            [exc |-> <<>>,
             ret |-> TelemetryEvent("", setField(value), context)]
       [] OTHER ->
            IF Truthy(doThrow)
            THEN [exc |-> SerializationException(
                            "Unable to serialize generic TelemetryEvent.",
                            type, value),
                  ret |-> Undefined]
            ELSE [exc |-> <<>>, ret |-> Null]

\* serializeGeneric: exc is the exception thrown (<<>> for none), ret the
\* value returned
serializeGeneric(type, value, opt_context, opt_err) ==
  LET doThrow == IF opt_err = Undefined THEN True ELSE opt_err
      context == IF opt_context # Undefined THEN setField(opt_context) ELSE ""
  IN CASE type = EventTypeProperty.EVENT ->
            [exc |-> <<>>,
             ret |-> TelemetryEvent(setField(value), "", context)]
       [] type = EventTypeProperty.EXCEPTION ->
            [exc |-> <<>>,
             ret |-> TelemetryEvent("", setField(value), context)]
       [] OTHER ->
            IF Truthy(doThrow)
            THEN [exc |-> SerializationException(
                            "Unable to serialize generic TelemetryEvent.",
                            type, value),
                  ret |-> Undefined]
            ELSE [exc |-> <<>>, ret |-> Null]

NoSerialization ==
  [op |-> "none", type |-> "", value |-> Undefined, opt_context |-> Undefined,
   opt_err |-> Undefined, exc |-> <<>>, ret |-> Undefined]

\* a call of serializeGeneric and what came of it
SerializeGeneric(type, value, opt_context, opt_err) ==
  LET r == serializeGeneric(type, value, opt_context, opt_err)
  IN
  /\ ser' = [op |-> "serializeGeneric", type |-> type, value |-> value,
             opt_context |-> opt_context, opt_err |-> opt_err,
             exc |-> r.exc, ret |-> r.ret]
  /\ UNCHANGED <<config, sends, telemetryVars, ctx, ids, pages>>

-----------------------------------------------------------------------------
(* Government ID: bloombox.identity.ID *)

IDType == [USDL |-> <<"IDType", "USDL">>, PASSPORT |-> <<"IDType", "PASSPORT">>]

\* String(v), as string concatenation converts a value
toString(v) ==
  CASE v[1] = "undefined" -> "undefined"
    [] v[1] = "null" -> "null"
    [] OTHER -> v[2]

\* String.prototype.toUpperCase on an array of characters
toUpperCase(cs) ==
  [i \in 1..Len(cs) |->
     IF \E k \in 1..Len(LowerChars) : LowerChars[k] = cs[i]
     THEN UpperChars[indexOf(LowerChars, cs[i])]
     ELSE cs[i]]

IDException(message) == <<"IDException", message>>

\* a proto.temporal.Date after setIso8601
Date(iso8601) == <<"Date", iso8601[2]>>

NoIDThis ==
  [type |-> Undefined, id |-> Undefined, expirationDate |-> Undefined,
   birthDate |-> Undefined, jurisdiction |-> Undefined, country |-> Undefined]

\* a mutation of the constructor: the jurisdiction is stored as given
IDKeepCase(type, id, expirationDate, birthDate, jurisdiction, country) ==
  LET j == IF jurisdiction \in {Undefined, Null} THEN jurisdiction
           ELSE str(jurisdiction)
      invalid(v) == ~Truthy(v) \/ ~(typeof(v) = "string")
  IN IF invalid(id) \/ invalid(expirationDate) \/ invalid(birthDate)
        \/ invalid(j)
     THEN [exc |-> IDException("Invalid."), this |-> NoIDThis]
     ELSE [exc |-> <<>>,
           this |-> [type |-> type, id |-> id,
                     expirationDate |-> Date(expirationDate),
                     birthDate |-> Date(birthDate),
                     jurisdiction |-> j,
                     country |-> Or(country, Str("USA"))]]

\* the constructor, the jurisdiction given as an array of characters (or
\* undefined or null): exc is the exception thrown (<<>> for none), this the
\* fields assigned
ID(type, id, expirationDate, birthDate, jurisdiction, country) ==
  LET j == IF jurisdiction \in {Undefined, Null} THEN jurisdiction
           ELSE str(jurisdiction)
      invalid(v) == ~Truthy(v) \/ ~(typeof(v) = "string")
  IN IF invalid(id)
     THEN [exc |-> IDException("Invalid driver's license ID: '"
                               \o toString(id) \o "'."),
           this |-> NoIDThis]
     ELSE IF invalid(expirationDate)
     THEN [exc |-> IDException("Invalid driver's license expiry date: '"
                               \o toString(expirationDate) \o "'."),
           this |-> NoIDThis]
     ELSE IF invalid(birthDate)
     THEN [exc |-> IDException("Invalid driver's license birth date: '"
                               \o toString(birthDate) \o "'."),
           this |-> NoIDThis]
     ELSE IF invalid(j)
     THEN [exc |-> IDException(
                     "Invalid driver's license issuance jurisdiction: '"
                     \o toString(j) \o "'."),
           this |-> NoIDThis]
     ELSE [exc |-> <<>>,
           this |-> [type |-> type, id |-> id,
                     expirationDate |-> Date(expirationDate),
                     birthDate |-> Date(birthDate),
                     jurisdiction |-> str(toUpperCase(jurisdiction)),
                     country |-> Or(country, Str("USA"))]]

\* arguments a caller may pass to the constructor
IDArgs ==
  [type : {IDType.USDL, IDType.PASSPORT},
   id : {Undefined, Str(""), Num("7"), Str("D123")},
   expirationDate : {Undefined, Str("2030-01-31"), Str("2030-02-30")},
   birthDate : {Null, Str("1990-06-15"), Str("June 15")},
   jurisdiction : {Undefined, <<>>, <<"c", "a">>, <<"C", "A">>,
                   <<"N", "y">>},
   country : {Undefined, Null, Str(""), Str("CAN")}]

NoIDCall ==
  [st |-> "none", args |-> CHOOSE a \in IDArgs : TRUE, exc |-> <<>>,
   this |-> NoIDThis]

construct(args) ==
  LET made == ID(args.type, args.id, args.expirationDate, args.birthDate,
                 args.jurisdiction, args.country)
  IN [st |-> IF made.exc = <<>> THEN "built" ELSE "threw",
      args |-> args, exc |-> made.exc, this |-> made.this]

\* new bloombox.identity.ID(...) on the arguments drawn
NewID ==
  /\ ids[1].st = "args"
  /\ ids' = [ids EXCEPT ![1] = construct(ids[1].args)]
  /\ UNCHANGED <<config, sends, telemetryVars, ctx, ser, pages>>

\* a second new bloombox.identity.ID(...): on the same arguments, or on the
\* same with the jurisdiction already in upper case
NewIDAgain(upper) ==
  LET a == ids[1].args
      j == IF upper /\ a.jurisdiction \notin {Undefined, Null}
           THEN toUpperCase(a.jurisdiction) ELSE a.jurisdiction
  IN
  /\ ids[1].st \in {"built", "threw"}
  /\ ids[2].st = "none"
  /\ ids' = [ids EXCEPT ![2] = construct([a EXCEPT !.jurisdiction = j])]
  /\ UNCHANGED <<config, sends, telemetryVars, ctx, ser, pages>>

-----------------------------------------------------------------------------
(* Two pages of one origin: resolveFingerprint and resolveSessionID, one
   storage access at a time *)

PageIds == {1, 2}

\* a page's own bloombox.telemetry.DEVICE_FINGERPRINT and SESSION_ID, the
\* locals of the resolver it is in, and the values its calls returned
NewPage ==
  [pc |-> "start", DEVICE_FINGERPRINT |-> Null, SESSION_ID |-> Null,
   existing |-> Undefined, generated |-> Undefined,
   fingerprint |-> Undefined, session |-> Undefined]

\* resolveFingerprint up to and including localStorage.getItem
readFingerprint(p) ==
  /\ pages[p].pc = "start"
  /\ pages' = [pages EXCEPT ![p] =
       IF pages[p].DEVICE_FINGERPRINT = Null
       THEN [@ EXCEPT !.pc = "fingerprintRead", !.existing = localStorage]
       ELSE [@ EXCEPT !.pc = "fingerprintReturned",
                      !.fingerprint = pages[p].DEVICE_FINGERPRINT]]
  /\ UNCHANGED <<config, sends, telemetryVars, ctx, ser, ids>>

\* the item read is a non-empty string: keep it and return it
loadFingerprint(p) ==
  /\ pages[p].pc = "fingerprintRead"
  /\ Truthy(pages[p].existing) /\ typeof(pages[p].existing) = "string"
  /\ pages' = [pages EXCEPT ![p] =
       [@ EXCEPT !.pc = "fingerprintReturned",
                 !.DEVICE_FINGERPRINT = pages[p].existing,
                 !.fingerprint = pages[p].existing]]
  /\ UNCHANGED <<config, sends, telemetryVars, ctx, ser, ids>>

\* no item was read: generate an identifier and keep it in memory
generateFingerprint(p) ==
  /\ pages[p].pc = "fingerprintRead"
  /\ ~(Truthy(pages[p].existing) /\ typeof(pages[p].existing) = "string")
  /\ pages' = [pages EXCEPT ![p] =
       [@ EXCEPT !.pc = "fingerprintGenerated",
                 !.generated = generateUUID(uuids),
                 !.DEVICE_FINGERPRINT = generateUUID(uuids)]]
  /\ uuids' = uuids + 1
  /\ UNCHANGED <<config, sends, DEVICE_FINGERPRINT, SESSION_ID,
                 GLOBAL_CONTEXT, localStorage, sessionStorage, heap, env, tel,
                 fp, ctx, ser, ids>>

\* localStorage.setItem with the generated identifier, and the return
writeFingerprint(p) ==
  /\ pages[p].pc = "fingerprintGenerated"
  /\ localStorage' = pages[p].generated
  /\ pages' = [pages EXCEPT ![p] =
       [@ EXCEPT !.pc = "fingerprintReturned",
                 !.fingerprint = pages[p].DEVICE_FINGERPRINT]]
  /\ UNCHANGED <<config, sends, DEVICE_FINGERPRINT, SESSION_ID,
                 GLOBAL_CONTEXT, sessionStorage, uuids, heap, env, tel, fp,
                 ctx, ser, ids>>

\* resolveSessionID up to and including sessionStorage.getItem
readSessionID(p) ==
  /\ pages[p].pc = "fingerprintReturned"
  /\ pages' = [pages EXCEPT ![p] =
       IF pages[p].SESSION_ID = Null
       THEN [@ EXCEPT !.pc = "sessionRead", !.existing = sessionStorage]
       ELSE [@ EXCEPT !.pc = "sessionReturned", !.session = pages[p].SESSION_ID]]
  /\ UNCHANGED <<config, sends, telemetryVars, ctx, ser, ids>>

\* the item read is a non-empty string: keep it and return it
loadSessionID(p) ==
  /\ pages[p].pc = "sessionRead"
  /\ Truthy(pages[p].existing) /\ typeof(pages[p].existing) = "string"
  /\ pages' = [pages EXCEPT ![p] =
       [@ EXCEPT !.pc = "sessionReturned",
                 !.SESSION_ID = pages[p].existing,
                 !.session = pages[p].existing]]
  /\ UNCHANGED <<config, sends, telemetryVars, ctx, ser, ids>>

\* no item was read: generate an identifier and keep it in memory
generateSessionID(p) ==
  /\ pages[p].pc = "sessionRead"
  /\ ~(Truthy(pages[p].existing) /\ typeof(pages[p].existing) = "string")
  /\ pages' = [pages EXCEPT ![p] =
       [@ EXCEPT !.pc = "sessionGenerated",
                 !.generated = generateUUID(uuids),
                 !.SESSION_ID = generateUUID(uuids)]]
  /\ uuids' = uuids + 1
  /\ UNCHANGED <<config, sends, DEVICE_FINGERPRINT, SESSION_ID,
                 GLOBAL_CONTEXT, localStorage, sessionStorage, heap, env, tel,
                 fp, ctx, ser, ids>>

\* sessionStorage.setItem with the generated identifier, and the return
writeSessionID(p) ==
  /\ pages[p].pc = "sessionGenerated"
  /\ sessionStorage' = pages[p].generated
  /\ pages' = [pages EXCEPT ![p] =
       [@ EXCEPT !.pc = "sessionReturned", !.session = pages[p].SESSION_ID]]
  /\ UNCHANGED <<config, sends, DEVICE_FINGERPRINT, SESSION_ID,
                 GLOBAL_CONTEXT, localStorage, uuids, heap, env, tel, fp,
                 ctx, ser, ids>>

-----------------------------------------------------------------------------
(* Specifications *)

InitSenders == sends = [s \in SendIds |-> IdleSend]

InitTelemetry ==
  /\ DEVICE_FINGERPRINT = Null
  /\ SESSION_ID = Null
  /\ GLOBAL_CONTEXT = Null
  /\ localStorage = Null
  /\ sessionStorage = Null
  /\ uuids = 0
  /\ heap = <<>>
  /\ tel = NoCall
  /\ fp = NoFingerprintCalls

NoContextCall ==
  [st |-> "none", args |-> CHOOSE a \in ContextArgs : TRUE, exc |-> "",
   this |-> NoThis, serialized |-> NoRendering, exported |-> NoRendering]

InitContext == ctx = NoContextCall

InitSerializer == ser = NoSerialization

InitID == ids = <<NoIDCall, NoIDCall>>

InitPages == pages = <<NewPage, NewPage>>

\* the senders against a transport that may invoke any continuation, with
\* any value, at any time after the call
Init ==
  /\ config \in [partner : PartnerCodes, location : LocationCodes]
  /\ env = CHOOSE ua \in UserAgents : ua.CHROME
  /\ InitSenders
  /\ InitTelemetry
  /\ InitContext
  /\ InitSerializer
  /\ InitID
  /\ InitPages

Next ==
  \/ \E s \in SendIds, person \in People, doctorWebsite \in DoctorWebsites,
        password \in PasswordArgs :
       NewEnrollment(s, person, doctorWebsite, password)
  \/ \E s \in SendIds : enableDryRun(s)
  \/ \E s \in SendIds : send(s)
  \/ \E s \in SendIds, zipcode \in ZipcodeArgs : zipcheck(s, zipcode)
  \/ \E s \in SendIds : info(s)
  \/ \E s \in SendIds : \E response \in Responses(sends[s].kind) :
       rpcResponse(s, response)
  \/ \E s \in SendIds, status \in Statuses : rpcFailure(s, status)

Spec == Init /\ [][Next]_vars

\* the global context cache of one device over page loads
InitTelemetrySpec ==
  /\ config \in [partner : PartnerCodes, location : LocationCodes]
  /\ env \in UserAgents
  /\ InitSenders
  /\ InitTelemetry
  /\ InitContext
  /\ InitSerializer
  /\ InitID
  /\ InitPages

NextTelemetry ==
  \/ ResolveFingerprint
  \/ ResolveSessionID
  \/ \E opt_force_fresh \in {Undefined, False, True} :
       globalContext(opt_force_fresh)
  \/ Restart
  \/ ClearLocalStorage
  \/ \E partner \in PartnerCodes, location \in LocationCodes :
       setup(partner, location)

SpecTelemetry == InitTelemetrySpec /\ [][NextTelemetry]_vars

\* the Context constructor on every combination of its arguments
InitContextSpec ==
  /\ config = [partner |-> Undefined, location |-> Undefined]
  /\ env = CHOOSE ua \in UserAgents : ua.CHROME
  /\ InitSenders
  /\ InitTelemetry
  /\ ctx \in [st : {"args"}, args : ContextArgs, exc : {""}, this : {NoThis},
              serialized : {NoRendering}, exported : {NoRendering}]
  /\ InitSerializer
  /\ InitID
  /\ InitPages

NextContext ==
  \/ NewContext
  \/ Serialize
  \/ Export

SpecContext == InitContextSpec /\ [][NextContext]_vars

\* serializeGeneric on every combination of its arguments
InitSerializerSpec ==
  /\ config = [partner |-> Undefined, location |-> Undefined]
  /\ env = CHOOSE ua \in UserAgents : ua.CHROME
  /\ InitSenders
  /\ InitTelemetry
  /\ InitContext
  /\ InitSerializer
  /\ InitID
  /\ InitPages

NextSerializer ==
  \E type \in TypeTags, value \in Payloads, opt_context \in ProtoContexts,
     opt_err \in ErrFlags :
    SerializeGeneric(type, value, opt_context, opt_err)

SpecSerializer == InitSerializerSpec /\ [][NextSerializer]_vars

\* the ID constructor on every combination of its arguments, twice
InitIDSpec ==
  /\ config = [partner |-> Undefined, location |-> Undefined]
  /\ env = CHOOSE ua \in UserAgents : ua.CHROME
  /\ InitSenders
  /\ InitTelemetry
  /\ InitContext
  /\ InitSerializer
  /\ ids \in {<<[NoIDCall EXCEPT !.st = "args", !.args = a], NoIDCall>> :
               a \in IDArgs}
  /\ InitPages

NextID ==
  \/ NewID
  \/ \E upper \in BOOLEAN : NewIDAgain(upper)

SpecID == InitIDSpec /\ [][NextID]_vars

\* two pages of one origin, each resolving the fingerprint and then the
\* session as globalContext does, their storage accesses interleaved
InitPagesSpec ==
  /\ config = [partner |-> Undefined, location |-> Undefined]
  /\ env = CHOOSE ua \in UserAgents : ua.CHROME
  /\ InitSenders
  /\ InitTelemetry
  /\ InitContext
  /\ InitSerializer
  /\ InitID
  /\ InitPages

NextPages ==
  \/ \E p \in PageIds : readFingerprint(p)
  \/ \E p \in PageIds : loadFingerprint(p)
  \/ \E p \in PageIds : generateFingerprint(p)
  \/ \E p \in PageIds : writeFingerprint(p)
  \/ \E p \in PageIds : readSessionID(p)
  \/ \E p \in PageIds : loadSessionID(p)
  \/ \E p \in PageIds : generateSessionID(p)
  \/ \E p \in PageIds : writeSessionID(p)

SpecPages == InitPagesSpec /\ [][NextPages]_vars

-----------------------------------------------------------------------------
(* Properties of the senders *)

\* C1: for every call that issued its RPC, once the transport has invoked a
\* continuation (success with any response, or failure with any status) and
\* it has returned, the caller's callback has been invoked.
C1_CallbackResolved ==
  \A s \in SendIds : sends[s].deliveries >= 1 => sends[s].ncalls >= 1

\* C2: over any sequence of continuation invocations for one send, the
\* caller's callback is invoked at most once.
C2_CallbackAtMostOnce ==
  \A s \in SendIds : sends[s].ncalls <= 1

C7_Expected(shopStatus) ==
  IF shopStatus = Str("CLOSED") THEN <<False, False, Null>>
  ELSE IF shopStatus = Str("DELIVERY_ONLY") THEN <<False, True, Null>>
  ELSE IF shopStatus = Str("PICKUP_ONLY") THEN <<True, False, Null>>
  ELSE <<True, True, Null>>

\* C7: an object response delivered to the success continuation of info (on a
\* send not yet completed) invokes the callback once with (pickup, delivery,
\* errorCode) fixed by shopStatus alone: CLOSED -> (false, false, null),
\* DELIVERY_ONLY -> (false, true, null), PICKUP_ONLY -> (true, false, null),
\* and OPEN, an absent status or any other value -> (true, true, null).
C7_ShopStatusMapping ==
  [][\A s \in SendIds : \A r \in InfoResponses :
       (/\ sends[s].kind = "info"
        /\ sends'[s].deliveries = sends[s].deliveries + 1
        /\ r.v = Object
        /\ ~sends[s].done
        /\ rpcResponse(s, r))
       => /\ sends'[s].ncalls = sends[s].ncalls + 1
          /\ sends'[s].args = C7_Expected(r.shopStatus)]_vars

C7_Witness ==
  \E s \in SendIds :
    /\ sends[s].kind = "info"
    /\ sends[s].deliveries = 1
    /\ sends[s].ncalls = 1
    /\ sends[s].args = <<True, False, Null>>

\* C8: for zipcheck, an object response with supported exactly true makes the
\* callback receive true and any other object response false; every response
\* value that is not an object makes it receive null; a transport failure
\* with any status makes it receive null.
C8_ZipcheckOutcome ==
  [][\A s \in SendIds :
       (/\ sends[s].kind = "zipcheck"
        /\ sends'[s].deliveries = sends[s].deliveries + 1) =>
         /\ \A r \in ZipcheckResponses :
              (~sends[s].done /\ rpcResponse(s, r))
              => /\ sends'[s].ncalls = sends[s].ncalls + 1
                 /\ sends'[s].args =
                      IF r.v = Object THEN <<Bool(r.supported = True)>>
                      ELSE <<Null>>
         /\ \A status \in Statuses :
              rpcFailure(s, status)
              => /\ sends'[s].ncalls = sends[s].ncalls + 1
                 /\ sends'[s].args = <<Null>>]_vars

C9_Expected(person, r) ==
  IF Truthy(r.error) THEN <<False, r.error, Null>>
  ELSE IF Truthy(r.id) /\ Truthy(r.foreignId)
       THEN <<True, Null, <<"Customer", person, r.foreignId[2]>>>>
       ELSE <<False, Null, Null>>

\* C9: for enroll (on a send not yet completed), a response containing error
\* makes the callback receive (false, that error, null) whatever its other
\* fields; one without error that has both id and foreignId makes it receive
\* (true, null, Customer of the enrolling person and the foreignId); one
\* without error lacking id or foreignId makes it receive (false, null,
\* null); a transport failure makes it receive (false, null, null).  A field
\* is contained when it is set to a non-default (truthy) value.
C9_EnrollOutcome ==
  [][\A s \in SendIds :
       (/\ sends[s].kind = "enroll"
        /\ sends'[s].deliveries = sends[s].deliveries + 1) =>
         /\ \A r \in EnrollResponses :
              (~sends[s].done /\ rpcResponse(s, r))
              => /\ sends'[s].ncalls = sends[s].ncalls + 1
                 /\ sends'[s].args = C9_Expected(sends[s].enr.person, r)
         /\ \A status \in Statuses :
              rpcFailure(s, status)
              => /\ sends'[s].ncalls = sends[s].ncalls + 1
                 /\ sends'[s].args = <<False, Null, Null>>]_vars

C9_Witness ==
  \E s \in SendIds :
    /\ sends[s].kind = "enroll"
    /\ sends[s].deliveries = 1
    /\ sends[s].args = <<True, Null, <<"Customer", sends[s].enr.person, "f-1">>>>

\* C15: with the partner or the location code missing no sender issues an
\* RPC and none invokes the callback: zipcheck throws ZipcheckException, info
\* throws ShopInfoException, and Enrollment.send logs an error and returns
\* without throwing.
C15_MissingConfig ==
  (~Truthy(config.partner) \/ ~Truthy(config.location)) =>
    \A s \in SendIds :
      /\ sends[s].rpcs = <<>>
      /\ sends[s].ncalls = 0
      /\ sends[s].kind = "zipcheck" =>
           (sends[s].st = "threw" /\ sends[s].exc = "ZipcheckException")
      /\ sends[s].kind = "info" =>
           (sends[s].st = "threw" /\ sends[s].exc = "ShopInfoException")
      /\ (sends[s].kind = "enroll" /\ sends[s].st # "built") =>
           /\ sends[s].st = "returned"
           /\ sends[s].exc = ""
           /\ sends[s].logged # ""

C15_Witness ==
  /\ Truthy(config.partner)
  /\ ~Truthy(config.location)
  /\ sends[1].kind = "enroll"
  /\ sends[1].st = "returned"
  /\ sends[1].logged # ""
  /\ sends[2].kind = "info"
  /\ sends[2].exc = "ShopInfoException"

\* the zipcheck endpoints of the valid zipcodes
C18_ZipcheckEndpoints ==
  {join(<<"partners", config.partner[2], "locations", config.location[2],
          "zipcheck", str(zipcode)[2]>>, "/") :
     zipcode \in {z \in ZipcodeArgs \ {Undefined} :
                    Len(z) = 5 /\ ~parseIntIsNaN(z)}}

\* C18: with partner and location configured, every call of Enrollment.send,
\* zipcheck (on a valid zipcode) or info has issued exactly one RPC when it
\* returns and never issues a second: enroll a POST to 'members' whatever
\* optional fields the enrollment carries, zipcheck a GET of
\* 'partners/<partner>/locations/<location>/zipcheck/<zipcode>', info a GET
\* of 'partners/<partner>/locations/<location>/shop/info'.
C18_ExactlyOneRPC ==
  ~codesMissing(config.partner, config.location) =>
    \A s \in SendIds :
      /\ Len(sends[s].rpcs) <= 1
      /\ (sends[s].kind = "enroll" /\ sends[s].st # "built") =>
           /\ Len(sends[s].rpcs) = 1
           /\ sends[s].rpcs[1].method = "POST"
           /\ sends[s].rpcs[1].endpoint = "members"
           /\ sends[s].rpcs[1].person = sends[s].enr.person
      /\ (sends[s].kind = "zipcheck" /\ sends[s].st # "threw") =>
           /\ Len(sends[s].rpcs) = 1
           /\ sends[s].rpcs[1].method = "GET"
           /\ sends[s].rpcs[1].endpoint \in C18_ZipcheckEndpoints
      /\ sends[s].kind = "info" =>
           /\ Len(sends[s].rpcs) = 1
           /\ sends[s].rpcs[1].method = "GET"
           /\ sends[s].rpcs[1].endpoint =
                join(<<"partners", config.partner[2], "locations",
                       config.location[2], "shop", "info">>, "/")

\* C22: the enroll request body has a password key exactly when a password
\* was passed to the Enrollment constructor (none when the argument was
\* omitted), holding the base64 encoding of that password; and it has dryRun
\* true exactly when enableDryRun() was called before send.
C22_PasswordAndDryRun ==
  \A s \in SendIds :
    (sends[s].kind = "enroll" /\ Len(sends[s].rpcs) = 1) =>
      LET body == sends[s].rpcs[1]
          supplied == sends[s].passwordArg \notin {Undefined, Null}
      IN /\ body.password # Undefined <=> supplied
         /\ supplied => body.password = btoa(sends[s].passwordArg)
         /\ body.dryRun = True <=> sends[s].enr.dryRun
         /\ body.dryRun \in {True, Undefined}

\* the callback arguments an object response maps to, by sender
C25_Outcome(sl, r) ==
  CASE sl.kind = "zipcheck" -> <<Bool(r.supported = True)>>
    [] sl.kind = "info" -> C7_Expected(r.shopStatus)
    [] OTHER -> C9_Expected(sl.enr.person, r)

\* C25: sends in flight together are independent: a continuation invoked for
\* one send leaves every other send as it is (its callback is not invoked,
\* its completion not recorded), and whatever state the other sends are in,
\* an object response to a send not yet completed invokes that send's
\* callback once with the outcome mapped from this response, and a transport
\* failure invokes it once.
C25_IndependentSends ==
  [][\A s \in SendIds :
       sends'[s].deliveries = sends[s].deliveries + 1 =>
         /\ \A t \in SendIds \ {s} : sends'[t] = sends[t]
         /\ \A r \in Responses(sends[s].kind) :
              (~sends[s].done /\ r.v = Object /\ rpcResponse(s, r))
              => /\ sends'[s].ncalls = sends[s].ncalls + 1
                 /\ sends'[s].args = C25_Outcome(sends[s], r)
         /\ \A status \in Statuses :
              rpcFailure(s, status)
              => sends'[s].ncalls = sends[s].ncalls + 1]_vars

\* a zipcheck and an info in flight together, each completed by its own
\* response with its own outcome
C25_Witness ==
  /\ sends[1].kind = "zipcheck"
  /\ sends[2].kind = "info"
  /\ \A s \in SendIds : sends[s].deliveries = 1 /\ sends[s].ncalls = 1
  /\ \A s \in SendIds : sends[s].done
  /\ sends[1].args = <<True>>
  /\ sends[2].args = <<False, False, Null>>

-----------------------------------------------------------------------------
(* Properties of the Context constructor (SpecContext) *)

\* C3: constructing a Context with a location supplied and no partner
\* supplied raises a ContextException and produces no Context; and in every
\* Context constructed, a location that is set implies a partner was
\* supplied.
C3_LocationRequiresPartner ==
  /\ (ctx.st \in {"built", "threw"}
        /\ Truthy(ctx.args.location) /\ ~Truthy(ctx.args.partner))
       => (ctx.st = "threw" /\ ctx.exc = "ContextException")
  /\ (ctx.st = "built" /\ ctx.this.location # Null)
       => Truthy(ctx.args.partner)

\* the field a rendered key comes from was supplied at construction
C12_Supplied(key) ==
  CASE key \in {"collection", "collection.name"} ->
         NotNullish(ctx.args.collection)
    [] key = "fingerprint" -> NotNullish(ctx.args.fingerprint)
    [] key = "group" -> NotNullish(ctx.args.session)
    [] key \in {"user", "user.uid"} -> NotNullish(ctx.args.user)
    [] key = "order.id" -> NotNullish(ctx.args.order)
    [] key = "scope.order" -> NotNullish(ctx.args.order)
    [] key = "scope.partner" -> NotNullish(ctx.args.partner)
    [] key = "browser" -> NotNullish(ctx.args.browser)
    [] OTHER -> FALSE

\* C12: for a Context built from any combination of the nine arguments,
\* serialize() and export() both complete, and each emits a key only for a
\* field that was supplied, never a key with a null value.
C12_RenderingsOmitAbsent ==
  /\ ctx.serialized.done =>
       /\ ctx.serialized.exc = ""
       /\ \A pair \in ctx.serialized.ret :
            NotNullish(pair[2]) /\ C12_Supplied(pair[1])
  /\ ctx.exported.done =>
       /\ ctx.exported.exc = ""
       /\ \A pair \in ctx.exported.ret :
            NotNullish(pair[2]) /\ C12_Supplied(pair[1])

\* the identifiers supplied, in the order partner, location, device
C13_Present ==
  <<ctx.args.partner[2]>>
    \o (IF Truthy(ctx.args.location) THEN <<ctx.args.location[2]>> ELSE <<>>)
    \o (IF Truthy(ctx.args.device) THEN <<ctx.args.device[2]>> ELSE <<>>)

\* C13: serialize() of a Context with partner, location and device gives
\* scope.partner 'partner/location/device', with partner and location
\* 'partner/location', with partner only 'partner', and completes without
\* error in each of the three cases.
C13_ScopeJoin ==
  (/\ ctx.serialized.done
   /\ Truthy(ctx.args.partner)
   /\ Truthy(ctx.args.device) => Truthy(ctx.args.location))
    => /\ ctx.serialized.exc = ""
       /\ <<"scope.partner", Str(join(C13_Present, "/"))>>
            \in ctx.serialized.ret

\* C14: the message export() returns has a scope whose partner string is
\* built from the identifiers present, in the order partner, location,
\* device, as path segments, and has no scope when no partner was supplied.
C14_ExportScope ==
  ctx.exported.done =>
    IF Truthy(ctx.args.partner)
    THEN <<"scope.partner", Str(join(C13_Present, "/"))>> \in ctx.exported.ret
    ELSE \A pair \in ctx.exported.ret : pair[1] # "scope.partner"

\* C19: in every Context constructed, a device key is attached only when
\* partner and location were both supplied, and its location is the
\* Context's own location key.
C19_DeviceRequiresLocation ==
  (ctx.st = "built" /\ ctx.this.device # Null)
    => /\ Truthy(ctx.args.partner)
       /\ Truthy(ctx.args.location)
       /\ ctx.this.location # Null
       /\ SubSeq(ctx.this.device, 3, Len(ctx.this.device)) = ctx.this.location

\* C20: a Context built with partner and device and no location serializes,
\* without error, with scope.partner 'partner/device'; with all three it
\* serializes with 'partner/location/device'.
C20_TwoSegmentScope ==
  (/\ ctx.serialized.done
   /\ Truthy(ctx.args.partner)
   /\ Truthy(ctx.args.device))
    => /\ ctx.serialized.exc = ""
       /\ <<"scope.partner", Str(join(C13_Present, "/"))>>
            \in ctx.serialized.ret

-----------------------------------------------------------------------------
(* Properties of two pages sharing the storage items (SpecPages) *)

\* C23: when two pages that share the storage items each run
\* resolveFingerprint (resolveSessionID) starting from an empty item, then
\* under every interleaving of their read, generate and write steps both
\* calls return the same identifier and the item ends up holding it.
C23_CreatedOnce ==
  /\ (\A p \in PageIds : pages[p].fingerprint # Undefined) =>
       /\ pages[1].fingerprint = pages[2].fingerprint
       /\ localStorage = pages[1].fingerprint
  /\ (\A p \in PageIds : pages[p].session # Undefined) =>
       /\ pages[1].session = pages[2].session
       /\ sessionStorage = pages[1].session

-----------------------------------------------------------------------------
(* Properties of the global context cache (SpecTelemetry) *)

\* C4, as stated: two consecutive resolveFingerprint calls in one process
\* with the storage item not cleared in between return the same string; a
\* call that follows a clearing of the storage item returns a string distinct
\* from the one the call before it returned.
C4_NewAfterClear ==
  fp.prev # Null =>
    /\ (~fp.clearedBefore /\ ~fp.restartedBefore) => fp.last = fp.prev
    /\ fp.clearedBefore => fp.last # fp.prev

\* C4, amended: a resolveFingerprint call returns the string the call before
\* it returned, whether or not the storage item was cleared in between, unless
\* the process was restarted in between and the call finds the storage item
\* empty; in that one case it returns a string distinct from the previous
\* one.
C4_NewAfterClearAndRestart ==
  fp.prev # Null =>
    (fp.last # fp.prev <=> (fp.emptyBefore /\ fp.restartedBefore))

\* the item was cleared, the page loaded again, and the call returned a new
\* string
C4_Witness ==
  /\ fp.prev # Null
  /\ fp.clearedBefore
  /\ fp.emptyBefore
  /\ fp.restartedBefore
  /\ tel.op = "resolveFingerprint"
  /\ tel.ret = fp.last
  /\ fp.last # fp.prev

\* C5: over calls of resolveFingerprint and restarts, with the storage item
\* never cleared, every call returns the string the first call returned, and
\* an identifier is generated at most once.
C5_SameAsFirst ==
  (~fp.everCleared /\ fp.last # Null) =>
    (fp.last = fp.first /\ fp.gens <= 1)

C5_Witness ==
  /\ ~fp.everCleared
  /\ fp.prev # Null
  /\ fp.restartedBefore
  /\ tel.op = "resolveFingerprint"
  /\ tel.ret = fp.first
  /\ fp.gens = 1

\* the location key a Context built from the active configuration carries
C6_ExpectedLocation ==
  IF Truthy(config.partner) /\ Truthy(config.location)
  THEN <<"PartnerLocationKey", config.location[2], config.partner[2]>>
  ELSE Null

\* C6: globalContext returns the Context it holds, unchanged, whenever it
\* holds one and opt_force_fresh is not truthy; exactly when it holds none or
\* opt_force_fresh is truthy it builds a new Context, from the active
\* configuration, the resolved fingerprint and session and the detected
\* browser, stores it in place of the old one and returns it.
C6_CachedUnlessForced ==
  [][\A opt_force_fresh \in {Undefined, False, True} :
       globalContext(opt_force_fresh) =>
         IF GLOBAL_CONTEXT # Null /\ ~Truthy(opt_force_fresh)
         THEN /\ tel'.ret = GLOBAL_CONTEXT
              /\ GLOBAL_CONTEXT' = GLOBAL_CONTEXT
              /\ heap' = heap
         ELSE /\ Len(heap') = Len(heap) + 1
              /\ GLOBAL_CONTEXT' = Ref(Len(heap'))
              /\ GLOBAL_CONTEXT' # GLOBAL_CONTEXT
              /\ tel'.ret = GLOBAL_CONTEXT'
              /\ SubSeq(heap', 1, Len(heap)) = heap
              /\ LET built == heap'[Len(heap')]
                 IN /\ built.location = C6_ExpectedLocation
                    /\ built.fingerprint = DEVICE_FINGERPRINT'
                    /\ built.session = SESSION_ID'
                    /\ built.browser = buildBrowserContext(env)
                    /\ built.collection = Null
                    /\ built.user = Null
                    /\ built.device = Null
                    /\ built.order = Null]_vars

\* the cache answered after the configuration changed: the Context returned
\* carries a location key the active configuration no longer gives
C6_Witness ==
  /\ tel.op = "globalContext"
  /\ tel.cached
  /\ tel.ret = GLOBAL_CONTEXT
  /\ \E i \in 1..Len(heap) :
       /\ Ref(i) = GLOBAL_CONTEXT
       /\ heap[i].location # C6_ExpectedLocation

\* C24: over the globalContext calls of one process, forced or not, every
\* Context returned carries the same fingerprint and the same session: a
\* call that finds DEVICE_FINGERPRINT (SESSION_ID) resolved leaves it and its
\* storage item as they are, and the Context it returns carries the
\* fingerprint and session of every Context built since the page loaded.
C24_StableIdentity ==
  [][\A opt_force_fresh \in {Undefined, False, True} :
       globalContext(opt_force_fresh) =>
         /\ DEVICE_FINGERPRINT # Null =>
              /\ DEVICE_FINGERPRINT' = DEVICE_FINGERPRINT
              /\ localStorage' = localStorage
         /\ SESSION_ID # Null =>
              /\ SESSION_ID' = SESSION_ID
              /\ sessionStorage' = sessionStorage
         /\ \E i \in 1..Len(heap') :
              /\ tel'.ret = Ref(i)
              /\ heap'[i].fingerprint = DEVICE_FINGERPRINT'
              /\ heap'[i].session = SESSION_ID'
              /\ \A j \in 1..Len(heap') :
                   /\ heap'[j].fingerprint = heap'[i].fingerprint
                   /\ heap'[j].session = heap'[i].session]_vars

\* a forced refresh returned a second Context with the fingerprint and the
\* session of the first
C24_Witness ==
  /\ tel.op = "globalContext"
  /\ ~tel.cached
  /\ Len(heap) = 2
  /\ tel.ret = Ref(2)
  /\ heap[2].fingerprint = heap[1].fingerprint
  /\ heap[2].session = heap[1].session
  /\ typeof(heap[2].fingerprint) = "string"
  /\ typeof(heap[2].session) = "string"

-----------------------------------------------------------------------------
(* Properties of serializeGeneric (SpecSerializer) *)

\* C10: serializeGeneric with a type tag other than genericEvent and
\* genericError throws a SerializationException carrying the tag and the
\* payload when opt_err is omitted or truthy, and returns null without
\* throwing when opt_err is false; in neither case is an envelope returned.
C10_UnrecognizedType ==
  (ser.op = "serializeGeneric"
     /\ ser.type \notin {EventTypeProperty.EVENT, EventTypeProperty.EXCEPTION})
    => /\ (ser.opt_err = Undefined \/ Truthy(ser.opt_err))
            => /\ Len(ser.exc) = 4
               /\ ser.exc[1] = "SerializationException"
               /\ ser.exc[3] = ser.type
               /\ ser.exc[4] = ser.value[2]
               /\ ser.ret = Undefined
       /\ ser.opt_err = False => (ser.exc = <<>> /\ ser.ret = Null)
       /\ ser.ret[1] # "TelemetryEvent"

C10_Witness ==
  /\ ser.op = "serializeGeneric"
  /\ ser.type = EventTypeProperty.ORDER_ACTION
  /\ ser.opt_err = Undefined
  /\ Len(ser.exc) = 4
  /\ ser.exc[3] = "orderAction"

\* C11: for the tags genericEvent and genericError serializeGeneric returns an
\* envelope with exactly one typed field set, to the payload: the generic
\* field for genericEvent, the error field for genericError; the envelope
\* carries a context exactly when a context was passed, and then that one.
C11_Envelope ==
  (ser.op = "serializeGeneric"
     /\ ser.type \in {EventTypeProperty.EVENT, EventTypeProperty.EXCEPTION})
    => /\ ser.exc = <<>>
       /\ Len(ser.ret) = 4
       /\ ser.ret[1] = "TelemetryEvent"
       /\ ser.type = EventTypeProperty.EVENT
            => (ser.ret[2] = ser.value[2] /\ ser.ret[3] = "")
       /\ ser.type = EventTypeProperty.EXCEPTION
            => (ser.ret[2] = "" /\ ser.ret[3] = ser.value[2])
       /\ ser.ret[4] = IF typeof(ser.opt_context) = "object"
                          /\ ser.opt_context # Null
                       THEN ser.opt_context[2]
                       ELSE ""

C11_Witness ==
  /\ ser.op = "serializeGeneric"
  /\ ser.type = EventTypeProperty.EXCEPTION
  /\ ser.opt_context = <<"Object", "c1">>
  /\ ser.ret = <<"TelemetryEvent", "", ser.value[2], "c1">>

-----------------------------------------------------------------------------
(* Properties of the government ID constructor (SpecID) *)

\* the upper-case spelling of the jurisdictions drawn
C16_Upper(cs) ==
  CASE cs = <<"c", "a">> -> Str("CA")
    [] cs = <<"C", "A">> -> Str("CA")
    [] cs = <<"N", "y">> -> Str("NY")
    [] cs = <<"N", "Y">> -> Str("NY")

\* C16: every ID constructed holds the jurisdiction in upper case, the
\* country supplied or 'USA' when it is omitted, null or empty, and the type
\* and the id as given; two constructions on identical arguments give equal
\* records, and a construction on the jurisdiction already in upper case
\* gives the same jurisdiction.
C16_Normalized ==
  /\ \A i \in {1, 2} :
       ids[i].st = "built" =>
         /\ ids[i].this.jurisdiction = C16_Upper(ids[i].args.jurisdiction)
         /\ ids[i].this.country =
              IF ids[i].args.country \in {Undefined, Null, Str("")}
              THEN Str("USA") ELSE ids[i].args.country
         /\ ids[i].this.type = ids[i].args.type
         /\ ids[i].this.id = ids[i].args.id
  /\ (ids[2].st # "none" /\ ids[2].args = ids[1].args) =>
       /\ ids[2].st = ids[1].st
       /\ ids[2].exc = ids[1].exc
       /\ ids[2].this = ids[1].this
  /\ (ids[1].st = "built" /\ ids[2].st = "built") =>
       ids[2].this.jurisdiction = ids[1].this.jurisdiction

C16_Witness ==
  /\ ids[1].st = "built"
  /\ ids[1].args.jurisdiction = <<"c", "a">>
  /\ ids[1].args.country = Undefined
  /\ ids[1].this.country = Str("USA")
  /\ ids[2].st = "built"
  /\ ids[2].args.jurisdiction = <<"C", "A">>
  /\ ids[2].this = ids[1].this

\* the dates drawn that are calendar dates in ISO-8601
C17_ValidDates == {Str("2030-01-31"), Str("1990-06-15")}

\* C17: the constructor throws an IDException naming the field and the
\* value, and produces no ID, when id, expirationDate, birthDate or
\* jurisdiction is missing, empty or not a string, or a date is not a valid
\* ISO-8601 calendar date; the first offending field in the order id,
\* expirationDate, birthDate, jurisdiction is the one reported.
C17_FailFast ==
  LET a == ids[1].args
      bad(v) == ~Truthy(v) \/ typeof(v) # "string"
      badDate(v) == bad(v) \/ v \notin C17_ValidDates
      badJurisdiction ==
        a.jurisdiction \in {Undefined, Null} \/ a.jurisdiction = <<>>
      jurisdiction ==
        IF a.jurisdiction \in {Undefined, Null}
        THEN toString(a.jurisdiction) ELSE join(a.jurisdiction, "")
      message(field, value) ==
        "Invalid driver's license " \o field \o ": '" \o value \o "'."
      expected ==
        IF bad(a.id) THEN message("ID", toString(a.id))
        ELSE IF badDate(a.expirationDate)
        THEN message("expiry date", toString(a.expirationDate))
        ELSE IF badDate(a.birthDate)
        THEN message("birth date", toString(a.birthDate))
        ELSE IF badJurisdiction
        THEN message("issuance jurisdiction", jurisdiction)
        ELSE ""
  IN (ids[1].st \in {"built", "threw"} /\ expected # "") =>
       /\ ids[1].st = "threw"
       /\ ids[1].exc = <<"IDException", expected>>
       /\ ids[1].this = NoIDThis

====
